---- MODULE Spec2Model ----
(***************************************************************************)
(* BrandMorpher: a Flask entrypoint (app.py) that saves two uploads, calls *)
(* two optional external adapters, runs the local compositor               *)
(* (generate_creatives.py), merges adapter captions into captions.txt and  *)
(* zips the run directory (utils.py).                                      *)
(*                                                                         *)
(* Text is modelled as a sequence of characters over a small alphabet:     *)
(* "a" stands for an ordinary letter, " " for whitespace, "-" for a bullet *)
(* character and "\n" for a line break.                                    *)
(***************************************************************************)
EXTENDS Integers, Sequences, FiniteSets, TLC

VARIABLES
    pc,         \* position of the operation under way
    api_key,    \* GeminiCaptionAdapter.api_key is set (a credential is configured)
    brand,      \* brand name of the call
    product,    \* product name of the call
    n,          \* number of captions / creatives asked for
    remote,     \* what the remote text endpoint does when it is called
    result,     \* outcome of the call: [raised, value]
    result2,    \* outcome of a repeated call with the same arguments
    rest_calls, \* number of requests.post attempts made
    logo_state,     \* the file at logo_path: "ok", "missing" or "undecodable"
    product_state,  \* the file at product_path: "ok", "missing" or "undecodable"
    out_dir_exists, \* the directory out_dir exists
    out_dir,        \* the entries of the directory out_dir
    captions,       \* the list captions of generate_variations_improved
    loop_i,         \* the loop index i of generate_variations_improved
    ret,            \* what generate_variations returned or raised
    captions_writes, \* how many times the call has written captions.txt
    folder,         \* the immediate entries of the directory given to create_zip
    nested,         \* the files inside the subdirectories of folder
    archive,        \* the entries written to the zip file, in order
    zip_todo,       \* the entries folder.iterdir() has still to yield
    logo_file,      \* request.files.get("logo")
    product_file,   \* request.files.get("product")
    use_image_api,  \* USE_IMAGE_API is "true"
    use_llm,        \* USE_LLM is "true"
    image_outcome,  \* how the image adapter step went: "disabled", "ok" or "raised"
    caption_outcome, \* how the caption adapter step went: "disabled", "ok" or "raised"
    run_dir_exists, \* RUNS / run_id has been created
    run_dir,        \* the immediate entries of the run directory
    logo_path,      \* the name the logo upload is saved under
    product_path,   \* the name the product upload is saved under
    gemini_images,  \* the files inside run_dir / "gemini_images"
    captions_list,  \* the captions the caption adapter gave, if any
    out_lines,      \* the entries the merge step wrote to captions.txt
    zip_file,       \* the archive at zip_path
    response,       \* the response of the request
    trace,          \* the steps of the request, in the order they happened
    genai,          \* the google.generativeai SDK: "missing" or the interface it has
    image_key,      \* GeminiImageAdapter.api_key is set
    image_remote,   \* what the SDK's image call does when it is called
    count,          \* the count argument of generate_images
    image_dir,      \* the entries of the directory out_dir of generate_images
    image_ret,      \* what generate_images returned or raised
    product_img,    \* the image decoded from the product file
    rgba,           \* Image.open(product_path).convert("RGBA")
    prod_cropped,   \* the box _autocrop_to_subject cropped to
    req_pc,         \* position of each concurrent request
    run_id,         \* the run_id of each concurrent request
    runs_dir,       \* RUNS: the run directories and archives, by run id
    writers,        \* which requests have written under each run id
    sent            \* the archive each concurrent request sent

callVars == <<brand, product, n>>
captionVars == <<api_key, remote, result, result2, rest_calls>>

composeVars == <<logo_state, product_state, out_dir_exists, out_dir, captions, loop_i, ret,
                 captions_writes>>

zipVars == <<folder, nested, archive, zip_todo>>

requestVars == <<logo_file, product_file, use_image_api, use_llm>>
runVars == <<image_outcome, caption_outcome, run_dir_exists, run_dir, logo_path,
             product_path, gemini_images, captions_list, out_lines, zip_file,
             response, trace>>
appVars == <<requestVars, runVars>>

imageVars == <<genai, image_key, image_remote, count, image_dir, image_ret>>

cropVars == <<product_img, rgba, prod_cropped>>

multiVars == <<req_pc, run_id, runs_dir, writers, sent>>

vars == <<pc, callVars, captionVars, composeVars, zipVars, appVars, imageVars, cropVars,
          multiVars>>

(***************************************************************************)
(* Bounds                                                                  *)
(***************************************************************************)
MaxTextLen == 3
MaxN == 6
MaxCreatives == 3
MaxFiles == 2
MaxSubdirs == 1
MaxCount == 2
MaxItems == 2
MaxSide == 2
MaxMarks == 2
NumRequests == 2
MaxRunIds == 2

\* Python's None where a text is expected, and a text that is there
NoText == [some |-> FALSE, text |-> <<>>]
Some(t) == [some |-> TRUE, text |-> t]

(***************************************************************************)
(* Text                                                                    *)
(***************************************************************************)
Chars == {"a", " ", "-", "\n"}

RECURSIVE TextsOfLen(_)
TextsOfLen(k) ==
    IF k = 0 THEN {<<>>}
    ELSE {Append(t, c) : t \in TextsOfLen(k - 1), c \in Chars}

Texts == UNION {TextsOfLen(k) : k \in 0..MaxTextLen}

\* str.strip() with no argument strips whitespace
Whitespace == {" ", "\n", "\r", "\t"}

\* the strip set of l.strip(" -<U+2022>\n\r\t"); "bullet" is the character U+2022
BulletChars == {" ", "-", "bullet", "\n", "\r", "\t"}

\* the character class of re.split(r'[\\.!;\\n]', text): in a raw string the
\* class holds the backslash, '.', '!', ';' and the letter 'n'
SentenceSeps == {"\\", ".", "!", ";", "n"}

RECURSIVE LStrip(_, _)
LStrip(s, set) ==
    IF s # <<>> /\ Head(s) \in set THEN LStrip(Tail(s), set) ELSE s

RECURSIVE RStrip(_, _)
RStrip(s, set) ==
    IF s # <<>> /\ s[Len(s)] \in set THEN RStrip(SubSeq(s, 1, Len(s) - 1), set) ELSE s

Strip(s, set) == RStrip(LStrip(s, set), set)

\* str.splitlines(): a line ends at each line break; no empty last line
RECURSIVE SplitLinesFrom(_, _, _, _)
SplitLinesFrom(s, i, cur, acc) ==
    IF i > Len(s) THEN (IF cur = <<>> THEN acc ELSE Append(acc, cur))
    ELSE IF s[i] = "\n" THEN SplitLinesFrom(s, i + 1, <<>>, Append(acc, cur))
    ELSE SplitLinesFrom(s, i + 1, Append(cur, s[i]), acc)

SplitLines(s) == SplitLinesFrom(s, 1, <<>>, <<>>)

\* re.split on a character class: every piece is kept, the empty ones too
RECURSIVE ReSplitFrom(_, _, _, _, _)
ReSplitFrom(s, seps, i, cur, acc) ==
    IF i > Len(s) THEN Append(acc, cur)
    ELSE IF s[i] \in seps THEN ReSplitFrom(s, seps, i + 1, <<>>, Append(acc, cur))
    ELSE ReSplitFrom(s, seps, i + 1, Append(cur, s[i]), acc)

ReSplit(s, seps) == ReSplitFrom(s, seps, 1, <<>>, <<>>)

\* xs[:k]
Take(xs, k) == SubSeq(xs, 1, IF k < Len(xs) THEN k ELSE Len(xs))

(***************************************************************************)
(* adapters/caption_llm_adapter.py                                         *)
(***************************************************************************)
\* a caption taken from a template, and a caption taken from a response line
TemplateCaption(k, b, p) == [src |-> "template", tmpl |-> k, brand |-> b, product |-> p]
LineCaption(t) == [src |-> "line", text |-> t]

\* the list samples of _template_captions: 5 f-strings over brand and product
samples(b, p) == [k \in 1..5 |-> TemplateCaption(k - 1, b, p)]

\* the loop with an index that is never advanced
RECURSIVE template_loop_stuck(_, _, _, _, _)
template_loop_stuck(smp, i, cnt, idx, out) ==
    IF i >= cnt THEN out
    ELSE template_loop_stuck(smp, i + 1, cnt, idx, Append(out, smp[(idx % Len(smp)) + 1]))

\* the loop of _template_captions: out.append(samples[idx % len(samples)]); idx += 1
RECURSIVE template_loop(_, _, _, _, _)
template_loop(smp, i, cnt, idx, out) ==
    IF i >= cnt THEN out
    ELSE template_loop(smp, i + 1, cnt, idx + 1, Append(out, smp[(idx % Len(smp)) + 1]))

_template_captions(b, p, cnt) == template_loop(samples(b, p), 0, cnt, 0, <<>>)

\* outcomes of a call
Return(v, posts) == [raised |-> FALSE, value |-> v, posts |-> posts]
Raise(posts) == [raised |-> TRUE, value |-> <<>>, posts |-> posts]

\* GeminiCaptionAdapter._call_rest: no key raises before any request is sent;
\* otherwise one requests.post, whose failure (connection error, timeout,
\* HTTP error status, a body that is not JSON) is re-raised as RuntimeError
_call_rest(key, rem) ==
    IF ~key THEN Raise(0)
    ELSE IF rem.raises THEN Raise(1)
    ELSE Return(rem.data, 1)

\* str(data) of a payload with no usable string: one line, e.g. "{'error': 5}"
Repr == Some(<<"{", "a", "}">>)

\* GeminiCaptionAdapter._extract_text_from_response
_extract_text_from_response(data) ==
    CASE data.shape = "falsy" -> NoText                  \* if not data: return None
      [] data.shape = "cand_dict" -> Some(data.text)     \* candidates[0][content|output|text]
      [] data.shape = "cand_str" -> Some(data.text)      \* candidates[0] is a str
      [] data.shape = "direct" -> Some(data.text)        \* data[output|text|content]
      [] data.shape = "value" ->                         \* some other str value
            IF Len(data.text) > 10 THEN Some(data.text) ELSE Repr
      [] data.shape = "json_str" -> Some(data.text)      \* data is a str: str(data)
      [] OTHER -> Repr                                   \* str(data)

\* the comprehension keeping l.strip() instead of l.strip(" -<U+2022>\n\r\t")
RECURSIVE stripped_lines_ws(_)
stripped_lines_ws(ls) ==
    IF ls = <<>> THEN <<>>
    ELSE (IF Strip(Head(ls), Whitespace) # <<>>
          THEN <<Strip(Head(ls), Whitespace)>> ELSE <<>>) \o stripped_lines_ws(Tail(ls))

\* [l.strip(" -<U+2022>\n\r\t") for l in ls if l.strip()]
RECURSIVE stripped_lines(_)
stripped_lines(ls) ==
    IF ls = <<>> THEN <<>>
    ELSE (IF Strip(Head(ls), Whitespace) # <<>>
          THEN <<Strip(Head(ls), BulletChars)>> ELSE <<>>) \o stripped_lines(Tail(ls))

\* [s.strip() for s in ps if s.strip()]
RECURSIVE stripped_sentences(_)
stripped_sentences(ps) ==
    IF ps = <<>> THEN <<>>
    ELSE (IF Strip(Head(ps), Whitespace) # <<>>
          THEN <<Strip(Head(ps), Whitespace)>> ELSE <<>>) \o stripped_sentences(Tail(ps))

\* the candidate caption lines of a usable text (lines 124-128)
caption_lines(text) ==
    LET lines == stripped_lines(SplitLines(text))
    IN  IF lines = <<>> THEN stripped_sentences(ReSplit(text, SentenceSeps)) ELSE lines

\* the padding with a template index that goes on from len(out)
pad_with_templates_continued(lines, b, p, cnt) ==
    LET out == Take(lines, cnt)
    IN  Take(template_loop(samples(b, p), Len(out), cnt, Len(out), out), cnt)

\* out = lines[:n]; pad with _template_captions(brand, product, n - len(out)); out[:n]
pad_with_templates(lines, b, p, cnt) ==
    LET out == Take(lines, cnt)
        padded == IF Len(out) < cnt
                  THEN out \o _template_captions(b, p, cnt - Len(out))
                  ELSE out
    IN  Take(padded, cnt)

\* lines 119-134: the captions made from a decoded response
captions_from_data(data, b, p, cnt, posts) ==
    LET text == _extract_text_from_response(data)
        lines == caption_lines(text.text)
    IN  IF ~text.some \/ text.text = <<>>                       \* if not text
        THEN Return(_template_captions(b, p, cnt), posts)
        ELSE Return(pad_with_templates(
                 [i \in 1..Len(lines) |-> LineCaption(lines[i])], b, p, cnt), posts)

\* generate_captions without its try/except around the remote call
generate_captions_uncaught(key, b, p, cnt, rem) ==
    IF ~key THEN Return(_template_captions(b, p, cnt), 0)
    ELSE LET r == _call_rest(key, rem)
         IN  IF r.raised THEN Raise(r.posts)
             ELSE captions_from_data(r.value, b, p, cnt, r.posts)

\* generate_captions with brand and product swapped in its no-key fallback
generate_captions_swapped(key, b, p, cnt, rem) ==
    IF ~key THEN Return(_template_captions(p, b, cnt), 0)
    ELSE Return(_template_captions(b, p, cnt), 1)

\* GeminiCaptionAdapter.generate_captions
generate_captions(key, b, p, cnt, rem) ==
    IF ~key THEN Return(_template_captions(b, p, cnt), 0)
    ELSE LET r == _call_rest(key, rem)
         IN  IF r.raised THEN Return(_template_captions(b, p, cnt), r.posts)   \* except Exception
             ELSE captions_from_data(r.value, b, p, cnt, r.posts)

(***************************************************************************)
(* Files and directories                                                   *)
(***************************************************************************)
\* a file name: a stem, the number formatted into it (0: none) and an extension
FileName(stem, idx, ext) == [stem |-> stem, idx |-> idx, ext |-> ext]

\* the format spec :02d
Pad2(k) == IF k < 10 THEN "0" \o ToString(k) ELSE ToString(k)

\* the name as the string the code writes, e.g. "creative_01.jpg"
NameStr(nm) ==
    nm.stem \o (IF nm.idx > 0 THEN "_" \o Pad2(nm.idx) ELSE "")
            \o (IF nm.ext # "" THEN "." \o nm.ext ELSE "")

\* a directory is a set of entries with distinct names
FileEntry(nm, content) == [name |-> nm, type |-> "file", content |-> content]
DirEntry(nm) == [name |-> nm, type |-> "dir", content |-> <<>>]

\* open(path, "w") / save(path): the entry of that name is replaced
WriteFile(dir, nm, content) == {e \in dir : e.name # nm} \cup {FileEntry(nm, content)}

Names(dir) == {e.name : e \in dir}
HasFile(dir, nm) == \E e \in dir : e.name = nm /\ e.type = "file"
ContentOf(dir, nm) == (CHOOSE e \in dir : e.name = nm).content

\* "\n".join(xs) over texts
RECURSIVE JoinLines(_)
JoinLines(xs) ==
    IF xs = <<>> THEN <<>>
    ELSE IF Len(xs) = 1 THEN xs[1]
    ELSE xs[1] \o <<"\n">> \o JoinLines(Tail(xs))

(***************************************************************************)
(* generate_creatives.py                                                   *)
(***************************************************************************)
CaptionsTxt == FileName("captions", 0, "txt")

\* filename_base = f"creative_{i+1:02d}" with its two extensions
CreativePng(k) == FileName("creative", k + 1, "png")
CreativeJpg(k) == FileName("creative", k + 1, "jpg")

\* what final.save writes for creative k in an encoding
ImageBytes(k, enc) == <<enc, "canvas_" \o Pad2(k + 1)>>

\* generate_caption: the template random.choice picked, as text
generate_caption(choice, b, p) ==
    CASE choice = 0 -> b \o <<" ">> \o p \o <<" - style meets performance.">>
      [] choice = 1 -> <<"Upgrade your day with the ">> \o p \o <<" from ">> \o b \o <<".">>
      [] choice = 2 -> <<"Feel the difference with ">> \o b \o <<"'s ">> \o p \o <<". Shop now!">>
      [] choice = 3 -> <<"The ">> \o p \o <<" by ">> \o b \o <<" - crafted for comfort and quality.">>
      [] OTHER -> <<"Special offer: grab the ">> \o p \o <<" by ">> \o b \o <<" today.">>

\* the indices random.choice(templates) can pick
CaptionChoices == 0..4

(***************************************************************************)
(* Images: a grid of w x h pixels, each with a luminance and an alpha      *)
(* value; the pixel at column x and row y (both from 0) is px[<<x, y>>].   *)
(* A box is (left, top, right, bottom) with right and bottom exclusive, as *)
(* PIL's getbbox and crop have it.                                         *)
(***************************************************************************)
Positions(w, h) == (0..(w - 1)) \X (0..(h - 1))

Pixel(lum, alpha) == [lum |-> lum, alpha |-> alpha]

MakeImage(mode, w, h, px) == [mode |-> mode, w |-> w, h |-> h, px |-> px]

NoBox == [some |-> FALSE, left |-> 0, top |-> 0, right |-> 0, bottom |-> 0]
Box(l, t, r, b) == [some |-> TRUE, left |-> l, top |-> t, right |-> r, bottom |-> b]

SetMin(S) == CHOOSE a \in S : \A b \in S : a <= b
SetMax(S) == CHOOSE a \in S : \A b \in S : a >= b

\* Image.getbbox over a band: the box of the non-zero pixels, None if there is none
getbbox(nonzero) ==
    IF nonzero = {} THEN NoBox
    ELSE Box(SetMin({pos[1] : pos \in nonzero}), SetMin({pos[2] : pos \in nonzero}),
             SetMax({pos[1] : pos \in nonzero}) + 1, SetMax({pos[2] : pos \in nonzero}) + 1)

\* img.convert("RGBA"): an image without an alpha band gets alpha 255 everywhere
convert_RGBA(img) ==
    MakeImage("RGBA", img.w, img.h,
              [pos \in Positions(img.w, img.h) |->
                  Pixel(img.px[pos].lum, IF img.mode = "RGBA" THEN img.px[pos].alpha ELSE 255)])

\* the default of the threshold parameter of _autocrop_to_subject
Threshold == 10

\* the fallback of lines 117-121: the centred square of side min(w, h)
center_crop(img) ==
    LET min_side == IF img.w < img.h THEN img.w ELSE img.h
        left == (img.w - min_side) \div 2
        top == (img.h - min_side) \div 2
    IN  Box(left, top, left + min_side, top + min_side)

\* _autocrop_to_subject: the box the image is cropped to
_autocrop_to_subject(img, threshold) ==
    LET alpha_bbox == getbbox({pos \in Positions(img.w, img.h) : img.px[pos].alpha # 0})
        bbox == getbbox({pos \in Positions(img.w, img.h) : img.px[pos].lum < 255 - threshold})
    IN  IF img.mode = "RGBA" /\ alpha_bbox.some THEN alpha_bbox
        ELSE IF bbox.some THEN bbox
        ELSE center_crop(img)

\* what a call gave back: nothing yet, an exception, or a value
NoReturn == [kind |-> "none", exc |-> "", value |-> <<>>]
RaiseExc(e) == [kind |-> "raise", exc |-> e, value |-> <<>>]
ReturnPath(path) == [kind |-> "path", exc |-> "", value |-> path]
ReturnList(xs) == [kind |-> "list", exc |-> "", value |-> xs]

\* the out_dir argument, a relative path, and Path(out_dir).resolve()
OutDirArg == <<"output">>
Resolve(path) == <<"/", "cwd">> \o path

\* f"{filename_base}.jpg\t{caption}"
caption_entry(k, caption) == <<NameStr(CreativeJpg(k)), "\t">> \o caption

(***************************************************************************)
(* utils.py                                                                *)
(***************************************************************************)
\* z.write(f) with no arcname: the entry is stored under the path of the file
zip_write_path(e) ==
    [arcname |-> "folder/" \o NameStr(e.name) \o (IF e.type = "dir" THEN "/" ELSE ""),
     is_dir |-> e.type = "dir",
     content |-> e.content]

\* z.write(f, arcname=f.name): a file is stored under its bare name with its
\* bytes; for a directory zipfile stores one empty entry named "<name>/"
zip_write(e) ==
    IF e.type = "dir"
    THEN [arcname |-> NameStr(e.name) \o "/", is_dir |-> TRUE, content |-> <<>>]
    ELSE [arcname |-> NameStr(e.name), is_dir |-> FALSE, content |-> e.content]

\* create_zip as one call: the entries of folder.iterdir(), in the order it yields them
RECURSIVE create_zip_from(_, _)
create_zip_from(todo, acc) ==
    IF todo = {} THEN acc
    ELSE LET e == CHOOSE x \in todo : TRUE
         IN  create_zip_from(todo \ {e}, Append(acc, zip_write(e)))

create_zip(dir) == create_zip_from(dir, <<>>)

(***************************************************************************)
(* adapters/image_gen_adapter.py                                           *)
(*                                                                         *)
(* The SDK is "missing" (import failed) or has one of three interfaces:    *)
(* "generate_image", "images.generate" or "other". What its image call     *)
(* gives back is a list of items: "b64" is an item with a decodable        *)
(* payload, "bad" one whose payload base64.b64decode rejects, and "none"   *)
(* one without a payload.                                                  *)
(***************************************************************************)
PlaceholderName(k) == FileName("gemini_placeholder", k, "png")
GeminiImgName(k) == FileName("gemini_img", k, "png")

\* str(Path(out_dir) / name)
ImagePath(nm) == "out_dir/" \o NameStr(nm)

\* the outcome of generate_images: the directory it leaves and what it gives back
ImagesOutcome(dir, r) == [dir |-> dir, ret |-> r]

\* the loop of _local_placeholders: one image per i in range(count), saved
\* as gemini_placeholder_{i+1:02d}.png with the text prompt[:80] drawn on it
RECURSIVE placeholder_loop(_, _, _, _, _)
placeholder_loop(prompt, i, cnt, dir, saved) ==
    IF i >= cnt THEN ImagesOutcome(dir, ReturnList(saved))
    ELSE placeholder_loop(prompt, i + 1, cnt,
            WriteFile(dir, PlaceholderName(i + 1), <<"[Gemini Placeholder]">> \o Take(prompt, 80)),
            Append(saved, ImagePath(PlaceholderName(i + 1))))

_local_placeholders(prompt, cnt, dir) == placeholder_loop(prompt, 0, cnt, dir, <<>>)

\* the loop over enumerate(items): an item without a payload is skipped, a
\* payload that does not decode raises, a decoded one is written as
\* gemini_img_{i+1:02d}.png and its path appended to saved
RECURSIVE save_items(_, _, _, _)
save_items(items, i, dir, saved) ==
    IF i >= Len(items) THEN [raised |-> FALSE, dir |-> dir, saved |-> saved]
    ELSE IF items[i + 1] = "none" THEN save_items(items, i + 1, dir, saved)
    ELSE IF items[i + 1] = "bad" THEN [raised |-> TRUE, dir |-> dir, saved |-> saved]
    ELSE save_items(items, i + 1,
                    WriteFile(dir, GeminiImgName(i + 1), <<"decoded image">>),
                    Append(saved, ImagePath(GeminiImgName(i + 1))))

\* generate_images without its try/except: what the SDK raises goes to the caller
generate_images_unguarded(sdk, key, rem, prompt, cnt, dir) ==
    IF sdk = "missing" \/ ~key THEN _local_placeholders(prompt, cnt, dir)
    ELSE IF rem.raises THEN ImagesOutcome(dir, RaiseExc("Exception"))
    ELSE IF sdk = "other" THEN _local_placeholders(prompt, cnt, dir)
    ELSE LET r == save_items(rem.items, 0, dir, <<>>)
         IN  IF r.raised THEN ImagesOutcome(r.dir, RaiseExc("Exception"))
             ELSE IF r.saved = <<>> THEN _local_placeholders(prompt, cnt, r.dir)
             ELSE ImagesOutcome(r.dir, ReturnList(r.saved))

\* GeminiImageAdapter.generate_images (out_dir is made first, line 40)
generate_images(sdk, key, rem, prompt, cnt, dir) ==
    IF sdk = "missing" \/ ~key THEN _local_placeholders(prompt, cnt, dir)   \* lines 44-45
    ELSE IF rem.raises THEN _local_placeholders(prompt, cnt, dir)           \* except Exception
    ELSE IF sdk = "other" THEN _local_placeholders(prompt, cnt, dir)        \* lines 111-116
    ELSE LET r == save_items(rem.items, 0, dir, <<>>)
         IN  IF r.raised THEN _local_placeholders(prompt, cnt, r.dir)       \* except Exception
             ELSE IF r.saved = <<>> THEN _local_placeholders(prompt, cnt, r.dir)  \* if not saved
             ELSE ImagesOutcome(r.dir, ReturnList(r.saved))

(***************************************************************************)
(* app.py                                                                  *)
(*                                                                         *)
(* An uploaded filename is the sequence of its parts between dots:         *)
(* "photo.JPG" is <<"photo", "JPG">>, "noext" is <<"noext">>, ".png" is    *)
(* <<"", "png">> and the empty filename is <<"">>.                         *)
(***************************************************************************)
AppN == 12
AppCaptions == 12
AppImages == 6

ALLOWED_EXT == {"png", "jpg", "jpeg"}

\* str.lower() on the filename parts used here
Lower(x) ==
    CASE x = "PNG" -> "png"
      [] x = "JPG" -> "jpg"
      [] x = "Jpeg" -> "jpeg"
      [] OTHER -> x

\* allowed without .lower()
allowed_case_sensitive(filename) ==
    Len(filename) >= 2 /\ filename[Len(filename)] \in ALLOWED_EXT

\* allowed: "." in filename and filename.rsplit(".", 1)[1].lower() in ALLOWED_EXT
allowed(filename) ==
    Len(filename) >= 2 /\ Lower(filename[Len(filename)]) \in ALLOWED_EXT

\* truth value of request.files.get(...): None and an empty filename are false
Truthy(upload) == upload.sent /\ upload.filename # <<"">>

\* secure_filename on one part: whitespace becomes "_"
SecureToken(t) == IF t = "my logo" THEN "my_logo" ELSE t

\* .strip("._") on the parts: leading and trailing empty parts go
RECURSIVE StripDots(_)
StripDots(f) ==
    IF f # <<>> /\ Head(f) = "" THEN StripDots(Tail(f))
    ELSE IF f # <<>> /\ f[Len(f)] = "" THEN StripDots(SubSeq(f, 1, Len(f) - 1))
    ELSE f

\* safe_filename: werkzeug's secure_filename
safe_filename(f) == StripDots([k \in 1..Len(f) |-> SecureToken(f[k])])

\* ".".join(parts)
RECURSIVE JoinDots(_)
JoinDots(parts) ==
    IF parts = <<>> THEN ""
    ELSE IF Len(parts) = 1 THEN parts[1]
    ELSE parts[1] \o "." \o JoinDots(Tail(parts))

\* run_dir / f"logo_{logo_fname}" and run_dir / f"product_{product_fname}"
SavedName(prefix, f) ==
    LET c == safe_filename(f)
    IN  IF Len(c) >= 2
        THEN FileName(prefix \o JoinDots(SubSeq(c, 1, Len(c) - 1)), 0, c[Len(c)])
        ELSE FileName(prefix \o JoinDots(c), 0, "")

GeminiImagesDir == FileName("gemini_images", 0, "")

\* the 5 templates of _template_captions as text
template_text(k, b, p) ==
    CASE k = 0 -> b \o <<" ">> \o p \o <<" - style meets performance.">>
      [] k = 1 -> <<"Upgrade your day with the ">> \o p \o <<" from ">> \o b \o <<".">>
      [] k = 2 -> <<"Feel the difference with ">> \o b \o <<"'s ">> \o p \o <<". Shop now!">>
      [] k = 3 -> <<"The ">> \o p \o <<" by ">> \o b \o <<" - crafted for comfort.">>
      [] OTHER -> <<"Special offer: grab the ">> \o p \o <<" by ">> \o b \o <<" today.">>

\* f"{captions_list[idx]}"
caption_text(c) ==
    IF c.src = "line" THEN c.text ELSE template_text(c.tmpl, c.brand, c.product)

\* generate_variations run to its end after `cnt` passes of the loop
RECURSIVE save_creatives(_, _, _)
save_creatives(dir, k, cnt) ==
    IF k >= cnt THEN dir
    ELSE save_creatives(
            WriteFile(WriteFile(dir, CreativePng(k), ImageBytes(k, "PNG")),
                      CreativeJpg(k), ImageBytes(k, "JPEG")),
            k + 1, cnt)

generate_variations(dir, cnt, pick, b, p) ==
    WriteFile(save_creatives(dir, 0, cnt), CaptionsTxt,
              JoinLines([k \in 1..cnt |->
                            caption_entry(k - 1, generate_caption(pick[k], b, p))]))

\* p.suffix.lower() in [".jpg", ".jpeg", ".png"]
IsImage(nm) == Lower(nm.ext) \in {"jpg", "jpeg", "png"}

\* the order of sorted() on the names of a run directory: "creative_..."
\* sorts before "logo_..." and that before "product_..."; among creatives
\* the two-digit number decides, then "jpg" before "png"
StemRank(nm, lp) == IF nm.stem = "creative" THEN 0 ELSE IF nm = lp THEN 1 ELSE 2
ExtRank(nm) == IF nm.ext = "jpg" THEN 0 ELSE 1
NameBefore(a, b, lp) ==
    \/ StemRank(a, lp) < StemRank(b, lp)
    \/ StemRank(a, lp) = StemRank(b, lp) /\ a.idx < b.idx
    \/ StemRank(a, lp) = StemRank(b, lp) /\ a.idx = b.idx /\ ExtRank(a) < ExtRank(b)

RECURSIVE Sorted(_, _)
Sorted(S, lp) ==
    IF S = {} THEN <<>>
    ELSE LET first == CHOOSE a \in S : \A b \in S \ {a} : NameBefore(a, b, lp)
         IN  <<first>> \o Sorted(S \ {first}, lp)

\* img_files = sorted([p for p in run_dir.iterdir() if p.suffix.lower() in [...]])
img_files(dir, lp) == Sorted({e.name : e \in {x \in dir : IsImage(x.name)}}, lp)

\* the pairs of the loop over enumerate(img_files[:len(captions_list)])
merge_entries(imgs, caps) ==
    [k \in 1..Len(Take(imgs, Len(caps))) |-> [file |-> imgs[k], caption |-> caps[k]]]

\* "\n".join(out_lines) with out_lines[k] = f"{img.name}\t{captions_list[idx]}"
merge_text(entries) ==
    JoinLines([k \in 1..Len(entries) |->
                  <<NameStr(entries[k].file), "\t">> \o caption_text(entries[k].caption)])

\* f"{brand}_{product}_creatives.zip".replace(" ", "_")
download_name(b, p) ==
    LET raw == b \o <<"_">> \o p \o <<"_creatives.zip">>
    IN  [k \in 1..Len(raw) |-> IF raw[k] = " " THEN "_" ELSE raw[k]]

(***************************************************************************)
(* Inputs and idle states                                                  *)
(***************************************************************************)
\* brand and product names are texts; a name may hold a line break
Brands == {<<"A">>, <<"A", "\n", "B">>}
Products == {<<"P">>, <<"Q">>}

\* a string value of more than 10 characters (line 97: len(v) > 10)
LongRun == [i \in 1..11 |-> "a"]

\* the decoded JSON bodies a successful request can hand back
Payloads ==
    {[shape |-> s, text |-> <<>>] : s \in {"falsy", "opaque"}}
    \cup {[shape |-> s, text |-> t] : s \in {"cand_dict", "cand_str", "direct", "value"}, t \in Texts}
    \cup {[shape |-> "value", text |-> LongRun \o t] : t \in Texts}
    \cup {[shape |-> "json_str", text |-> t] : t \in Texts \ {<<>>}}

Remotes ==
    {[raises |-> TRUE, data |-> [shape |-> "falsy", text |-> <<>>]]} \cup {[raises |-> FALSE, data |-> d] : d \in Payloads}

NoResult == [raised |-> FALSE, value |-> <<>>, posts |-> 0]

\* the state of the compositor before any call
ComposeIdle ==
    /\ logo_state = "ok"
    /\ product_state = "ok"
    /\ out_dir_exists = FALSE
    /\ out_dir = {}
    /\ captions = <<>>
    /\ loop_i = 0
    /\ ret = NoReturn
    /\ captions_writes = 0

\* the state of the packaging layer before any call
ZipIdle ==
    /\ folder = {}
    /\ nested = {}
    /\ archive = <<>>
    /\ zip_todo = {}

\* no caption adapter call under way
CaptionsIdle ==
    /\ api_key = FALSE
    /\ remote = [raises |-> TRUE, data |-> [shape |-> "falsy", text |-> <<>>]]
    /\ result = NoResult
    /\ result2 = NoResult
    /\ rest_calls = 0

NoResponse == [kind |-> "none", flash |-> "", download_name |-> <<>>, entries |-> <<>>]
NoZip == [exists |-> FALSE, entries |-> <<>>]

\* concurrent requests and the run ids uuid4().hex can give
Requests == 1..NumRequests
RunIds == {"run" \o ToString(k) : k \in 1..MaxRunIds}
NoRunId == "none"

\* RUNS / run_id and RUNS / f"{run_id}.zip" before anything is there
NoRun == [exists |-> FALSE, dir |-> {}, zip |-> NoZip]

\* no concurrent request under way
MultiIdle ==
    /\ req_pc = [r \in Requests |-> "idle"]
    /\ run_id = [r \in Requests |-> NoRunId]
    /\ runs_dir = [id \in RunIds |-> NoRun]
    /\ writers = [id \in RunIds |-> {}]
    /\ sent = [r \in Requests |-> NoResponse]

\* no product image opened
NoImage == MakeImage("none", 0, 0, <<>>)
CropIdle ==
    /\ product_img = NoImage
    /\ rgba = NoImage
    /\ prod_cropped = NoBox

\* the image adapter before any call
NoItems == [raises |-> TRUE, items |-> <<>>]
ImagesIdle ==
    /\ genai = "missing"
    /\ image_key = FALSE
    /\ image_remote = NoItems
    /\ count = 0
    /\ image_dir = {}
    /\ image_ret = NoReturn

NoUpload == [sent |-> FALSE, filename |-> <<>>]
NoName == FileName("", 0, "")
NoCaptions == [some |-> FALSE, value |-> <<>>]

\* no run of generate() under way
RunIdle ==
    /\ image_outcome = "disabled"
    /\ caption_outcome = "disabled"
    /\ run_dir_exists = FALSE
    /\ run_dir = {}
    /\ logo_path = NoName
    /\ product_path = NoName
    /\ gemini_images = {}
    /\ captions_list = NoCaptions
    /\ out_lines = <<>>
    /\ zip_file = NoZip
    /\ response = NoResponse
    /\ trace = <<>>

\* no request under way
AppIdle ==
    /\ logo_file = NoUpload
    /\ product_file = NoUpload
    /\ use_image_api = FALSE
    /\ use_llm = FALSE
    /\ image_outcome = "disabled"
    /\ caption_outcome = "disabled"
    /\ run_dir_exists = FALSE
    /\ run_dir = {}
    /\ logo_path = NoName
    /\ product_path = NoName
    /\ gemini_images = {}
    /\ captions_list = NoCaptions
    /\ out_lines = <<>>
    /\ zip_file = NoZip
    /\ response = NoResponse
    /\ trace = <<>>

(***************************************************************************)
(* The caption adapter under every input: SpecCaptions                     *)
(***************************************************************************)
InitCaptions ==
    /\ pc = "ready"
    /\ ComposeIdle
    /\ ZipIdle
    /\ AppIdle
    /\ ImagesIdle
    /\ CropIdle
    /\ MultiIdle
    /\ api_key \in BOOLEAN
    /\ brand \in Brands
    /\ product \in Products
    /\ n \in 0..MaxN
    /\ remote \in Remotes
    /\ result = NoResult
    /\ result2 = NoResult
    /\ rest_calls = 0

\* a call of GeminiCaptionAdapter.generate_captions(brand, product, n)
GenerateCaptions ==
    /\ pc = "ready"
    /\ result' = generate_captions(api_key, brand, product, n, remote)
    /\ rest_calls' = rest_calls + result'.posts
    /\ pc' = "captions_returned"
    /\ UNCHANGED <<callVars, api_key, remote, result2, composeVars, zipVars, appVars, imageVars, cropVars, multiVars>>

\* a call of _template_captions(brand, product, n)
TemplateCaptions ==
    /\ pc = "ready"
    /\ result' = Return(_template_captions(brand, product, n), 0)
    /\ pc' = "template_returned"
    /\ UNCHANGED <<callVars, api_key, remote, result2, rest_calls, composeVars, zipVars, appVars, imageVars, cropVars, multiVars>>

\* a second call of _template_captions with the same arguments
TemplateCaptionsAgain ==
    /\ pc = "template_returned"
    /\ result2' = Return(_template_captions(brand, product, n), 0)
    /\ pc' = "template_twice"
    /\ UNCHANGED <<callVars, api_key, remote, result, rest_calls, composeVars, zipVars, appVars, imageVars, cropVars, multiVars>>

NextCaptions == GenerateCaptions \/ TemplateCaptions \/ TemplateCaptionsAgain

SpecCaptions == InitCaptions /\ [][NextCaptions]_vars

(***************************************************************************)
(* The compositor under every input: SpecCompose                           *)
(***************************************************************************)
\* the files an earlier run may have left in out_dir
OldCaptions == <<"old captions">>
InitialDirs == {{}, {FileEntry(CaptionsTxt, OldCaptions)}}

InitCompose ==
    /\ pc = "compose_ready"
    /\ brand \in Brands
    /\ product \in Products
    /\ n \in 0..MaxCreatives
    /\ logo_state \in {"ok", "missing", "undecodable"}
    /\ product_state \in {"ok", "missing", "undecodable"}
    /\ out_dir_exists \in BOOLEAN
    /\ out_dir \in (IF out_dir_exists THEN InitialDirs ELSE {{}})
    /\ captions = <<>>
    /\ loop_i = 0
    /\ ret = NoReturn
    /\ captions_writes = 0
    /\ CaptionsIdle
    /\ ZipIdle
    /\ AppIdle
    /\ ImagesIdle
    /\ CropIdle
    /\ MultiIdle

\* lines 183-197 without the checks of lines 186-189 and with inputs that
\* always decode
ComposeOpenUnchecked ==
    /\ pc = "compose_ready"
    /\ out_dir_exists' = TRUE
    /\ pc' = "compose_loop"
    /\ UNCHANGED <<callVars, captionVars, zipVars, appVars, imageVars, cropVars, multiVars,
                   logo_state, product_state, out_dir, captions, loop_i, ret, captions_writes>>

\* lines 183-197: ensure_dir, the two existence checks, the two Image.open
ComposeOpen ==
    /\ pc = "compose_ready"
    /\ out_dir_exists' = TRUE
    /\ IF logo_state = "missing" \/ product_state = "missing"
       THEN /\ ret' = RaiseExc("FileNotFoundError")
            /\ pc' = "compose_raised"
       ELSE IF logo_state = "undecodable" \/ product_state = "undecodable"
       THEN /\ ret' = RaiseExc("UnidentifiedImageError")
            /\ pc' = "compose_raised"
       ELSE /\ ret' = ret
            /\ pc' = "compose_loop"
    /\ UNCHANGED <<callVars, captionVars, zipVars, appVars, imageVars, cropVars, multiVars,
                   logo_state, product_state, out_dir, captions, loop_i, captions_writes>>

\* lines 199-329: one pass of the loop that completes
ComposeCreative ==
    /\ pc = "compose_loop"
    /\ loop_i < n
    /\ \E choice \in CaptionChoices :
         captions' = Append(captions, caption_entry(loop_i, generate_caption(choice, brand, product)))
    /\ out_dir' = WriteFile(WriteFile(out_dir, CreativePng(loop_i), ImageBytes(loop_i, "PNG")),
                            CreativeJpg(loop_i), ImageBytes(loop_i, "JPEG"))
    /\ loop_i' = loop_i + 1
    /\ UNCHANGED <<pc, callVars, captionVars, zipVars, appVars, imageVars, cropVars, multiVars,
                   logo_state, product_state, out_dir_exists, ret, captions_writes>>

\* a failing pass that writes the captions gathered so far before it raises,
\* as a try/finally around the loop would
ComposeCreativeRaisesSalvages ==
    /\ pc = "compose_loop"
    /\ loop_i < n
    /\ out_dir' = WriteFile(out_dir, CaptionsTxt, JoinLines(captions))
    /\ captions_writes' = captions_writes + 1
    /\ ret' = RaiseExc("Exception")
    /\ pc' = "compose_raised"
    /\ UNCHANGED <<callVars, captionVars, zipVars, appVars, imageVars, cropVars, multiVars,
                   logo_state, product_state, out_dir_exists, captions, loop_i>>

\* one pass of the loop in which a library call raises: while the canvas is
\* built (nothing saved), or in the second final.save (the PNG is on disk)
ComposeCreativeRaises ==
    /\ pc = "compose_loop"
    /\ loop_i < n
    /\ \E png_saved \in BOOLEAN :
         out_dir' = IF png_saved
                    THEN WriteFile(out_dir, CreativePng(loop_i), ImageBytes(loop_i, "PNG"))
                    ELSE out_dir
    /\ ret' = RaiseExc("Exception")
    /\ pc' = "compose_raised"
    /\ UNCHANGED <<callVars, captionVars, zipVars, appVars, imageVars, cropVars, multiVars,
                   logo_state, product_state, out_dir_exists, captions, loop_i, captions_writes>>

\* lines 331-335 returning the list of the creative filenames
ComposeWriteCaptionsReturnsList ==
    /\ pc = "compose_loop"
    /\ loop_i >= n
    /\ out_dir' = WriteFile(out_dir, CaptionsTxt, JoinLines(captions))
    /\ captions_writes' = captions_writes + 1
    /\ ret' = ReturnList([k \in 1..n |-> NameStr(CreativeJpg(k - 1))])
    /\ pc' = "compose_returned"
    /\ UNCHANGED <<callVars, captionVars, zipVars, appVars, imageVars, cropVars, multiVars,
                   logo_state, product_state, out_dir_exists, captions, loop_i>>

\* lines 331-335: captions.txt is written and the resolved out_dir returned
ComposeWriteCaptions ==
    /\ pc = "compose_loop"
    /\ loop_i >= n
    /\ out_dir' = WriteFile(out_dir, CaptionsTxt, JoinLines(captions))
    /\ captions_writes' = captions_writes + 1
    /\ ret' = ReturnPath(Resolve(OutDirArg))
    /\ pc' = "compose_returned"
    /\ UNCHANGED <<callVars, captionVars, zipVars, appVars, imageVars, cropVars, multiVars,
                   logo_state, product_state, out_dir_exists, captions, loop_i>>

NextCompose ==
    ComposeOpen \/ ComposeCreative \/ ComposeCreativeRaises \/ ComposeWriteCaptions

SpecCompose == InitCompose /\ [][NextCompose]_vars

(***************************************************************************)
(* The packaging layer under every input: SpecZip                          *)
(***************************************************************************)
\* the directories create_zip is tried on: up to MaxFiles files and
\* MaxSubdirs subdirectories, each subdirectory empty or holding one file
ZipFileNames == {FileName("file", k, "txt") : k \in 1..MaxFiles}
ZipDirNames == {FileName("sub", k, "") : k \in 1..MaxSubdirs}
ZipContents == {<<"x">>, <<"y">>}
InnerName == FileName("inner", 0, "txt")

ZipFolders ==
    {dir \in SUBSET ({FileEntry(nm, c) : nm \in ZipFileNames, c \in ZipContents}
                     \cup {DirEntry(nm) : nm \in ZipDirNames}) :
        \A e1, e2 \in dir : e1.name = e2.name => e1 = e2}

InitZip ==
    /\ pc = "zip_ready"
    /\ folder \in ZipFolders
    /\ nested \in SUBSET {[dir |-> e.name, entry |-> FileEntry(InnerName, <<"x">>)] :
                              e \in {d \in folder : d.type = "dir"}}
    /\ archive = <<>>
    /\ zip_todo = {}
    /\ brand \in {<<"A">>}
    /\ product \in {<<"P">>}
    /\ n = 0
    /\ CaptionsIdle
    /\ ComposeIdle
    /\ AppIdle
    /\ ImagesIdle
    /\ CropIdle
    /\ MultiIdle

\* line 7-8: the archive is opened for writing and the directory listed
ZipOpen ==
    /\ pc = "zip_ready"
    /\ archive' = <<>>
    /\ zip_todo' = folder
    /\ pc' = "zip_writing"
    /\ UNCHANGED <<callVars, captionVars, composeVars, appVars, imageVars, cropVars, multiVars, folder, nested>>

\* line 9: one pass of the loop
ZipWrite ==
    /\ pc = "zip_writing"
    /\ \E e \in zip_todo :
         /\ archive' = Append(archive, zip_write(e))
         /\ zip_todo' = zip_todo \ {e}
    /\ UNCHANGED <<pc, callVars, captionVars, composeVars, appVars, imageVars, cropVars, multiVars, folder, nested>>

\* line 10: the archive is closed and zip_path returned
ZipClose ==
    /\ pc = "zip_writing"
    /\ zip_todo = {}
    /\ pc' = "zip_returned"
    /\ UNCHANGED <<callVars, captionVars, composeVars, zipVars, appVars, imageVars, cropVars, multiVars>>

NextZip == ZipOpen \/ ZipWrite \/ ZipClose

SpecZip == InitZip /\ [][NextZip]_vars

(***************************************************************************)
(* One request to /generate: Spec                                          *)
(***************************************************************************)
\* the filenames a client may send
Filenames == {<<"logo", "png">>, <<"photo", "JPG">>, <<"my logo", "jpeg">>,
              <<"notes", "txt">>, <<"noext">>, <<"">>}

Uploads == {NoUpload} \cup {[sent |-> TRUE, filename |-> f] : f \in Filenames}

\* what the text endpoint may do when the caption adapter calls it
AppRemotes ==
    {[raises |-> TRUE, data |-> [shape |-> "falsy", text |-> <<>>]],
     [raises |-> FALSE, data |-> [shape |-> "cand_dict", text |-> <<"a", "\n", "a">>]],
     [raises |-> FALSE, data |-> [shape |-> "direct", text |-> <<"-">>]]}

\* outcomes of random.choice(templates) over the 12 creatives of a request
AppPicks == {[k \in 1..AppN |-> (k + shift) % 5] : shift \in {0, 1}}

Redirect(msg) == [kind |-> "redirect", flash |-> msg, download_name |-> <<>>, entries |-> <<>>]

Init ==
    /\ pc = "request"
    /\ brand \in Brands
    /\ product \in {<<"P">>}
    /\ n = AppN
    /\ logo_file \in Uploads
    /\ product_file \in Uploads
    /\ use_image_api \in BOOLEAN
    /\ use_llm \in BOOLEAN
    /\ api_key \in BOOLEAN
    /\ remote \in AppRemotes
    /\ result = NoResult
    /\ result2 = NoResult
    /\ rest_calls = 0
    /\ logo_state \in {"ok", "undecodable"}
    /\ product_state \in {"ok", "undecodable"}
    /\ out_dir_exists = FALSE
    /\ out_dir = {}
    /\ captions = <<>>
    /\ loop_i = 0
    /\ ret = NoReturn
    /\ captions_writes = 0
    /\ ZipIdle
    /\ image_outcome = "disabled"
    /\ caption_outcome = "disabled"
    /\ run_dir_exists = FALSE
    /\ run_dir = {}
    /\ logo_path = NoName
    /\ product_path = NoName
    /\ gemini_images = {}
    /\ captions_list = NoCaptions
    /\ out_lines = <<>>
    /\ zip_file = NoZip
    /\ response = NoResponse
    /\ trace = <<>>
    /\ ImagesIdle
    /\ CropIdle
    /\ MultiIdle

appFrame == <<callVars, captionVars, composeVars, zipVars, requestVars, imageVars, cropVars,
              multiVars>>

\* lines 70-73: a missing upload is rejected
RejectMissing ==
    /\ pc = "request"
    /\ ~Truthy(logo_file) \/ ~Truthy(product_file)
    /\ response' = Redirect("Please upload both logo and product images.")
    /\ trace' = Append(trace, "response")
    /\ pc' = "responded"
    /\ UNCHANGED <<appFrame, image_outcome, caption_outcome, run_dir_exists, run_dir,
                   logo_path, product_path, gemini_images, captions_list, out_lines, zip_file>>

\* lines 75-77: an extension that is not allowed is rejected
RejectExtension ==
    /\ pc = "request"
    /\ Truthy(logo_file) /\ Truthy(product_file)
    /\ ~(allowed(logo_file.filename) /\ allowed(product_file.filename))
    /\ response' = Redirect("Allowed file types: png, jpg, jpeg")
    /\ trace' = Append(trace, "response")
    /\ pc' = "responded"
    /\ UNCHANGED <<appFrame, image_outcome, caption_outcome, run_dir_exists, run_dir,
                   logo_path, product_path, gemini_images, captions_list, out_lines, zip_file>>

\* lines 79-90: the run directory is made and the two uploads are saved in it
SaveUploads ==
    /\ pc = "request"
    /\ Truthy(logo_file) /\ Truthy(product_file)
    /\ allowed(logo_file.filename) /\ allowed(product_file.filename)
    /\ run_dir_exists' = TRUE
    /\ logo_path' = SavedName("logo_", logo_file.filename)
    /\ product_path' = SavedName("product_", product_file.filename)
    /\ run_dir' = WriteFile(WriteFile(run_dir, logo_path', <<"logo bytes", logo_state>>),
                            product_path', <<"product bytes", product_state>>)
    /\ trace' = Append(trace, "save_uploads")
    /\ pc' = "image"
    /\ UNCHANGED <<appFrame, image_outcome, caption_outcome, gemini_images, captions_list,
                   out_lines, zip_file, response>>

\* line 99: USE_IMAGE_API is not "true"
ImageAdapterDisabled ==
    /\ pc = "image"
    /\ ~use_image_api
    /\ pc' = "caption"
    /\ UNCHANGED <<appFrame, runVars>>

\* lines 99-106: the image adapter runs; what it raises is caught and printed.
\* It makes run_dir/gemini_images and leaves 6 files there (from the remote
\* service or placeholders), or raises before or after making the directory
ImageAdapterStep ==
    /\ pc = "image"
    /\ use_image_api
    /\ \E outcome \in {"remote", "placeholder", "raise_before_mkdir", "raise_after_mkdir"} :
         /\ image_outcome' = IF outcome \in {"remote", "placeholder"} THEN "ok" ELSE "raised"
         /\ run_dir' = IF outcome = "raise_before_mkdir" THEN run_dir
                       ELSE run_dir \cup {DirEntry(GeminiImagesDir)}
         /\ gemini_images' =
                CASE outcome = "remote" ->
                        {FileEntry(FileName("gemini_img", k, "png"), <<"remote image">>) :
                            k \in 1..AppImages}
                  [] outcome = "placeholder" ->
                        {FileEntry(FileName("gemini_placeholder", k, "png"), <<"placeholder">>) :
                            k \in 1..AppImages}
                  [] OTHER -> {}
    /\ trace' = Append(trace, "image_adapter")
    /\ pc' = "caption"
    /\ UNCHANGED <<appFrame, caption_outcome, run_dir_exists, logo_path, product_path,
                   captions_list, out_lines, zip_file, response>>

\* line 110: USE_LLM is not "true"
CaptionAdapterDisabled ==
    /\ pc = "caption"
    /\ ~use_llm
    /\ pc' = "compose"
    /\ UNCHANGED <<appFrame, runVars>>

\* the caption adapter step without its try/except: what the adapter raises
\* ends the request with an error response
CaptionAdapterStepUncaught ==
    /\ pc = "caption"
    /\ use_llm
    /\ \E imported \in BOOLEAN :
         LET r == generate_captions(api_key, brand, product, AppCaptions, remote)
         IN  IF imported /\ ~r.raised
             THEN /\ captions_list' = [some |-> TRUE, value |-> r.value]
                  /\ caption_outcome' = "ok"
                  /\ response' = response
                  /\ trace' = Append(trace, "caption_adapter")
                  /\ pc' = "compose"
             ELSE /\ captions_list' = NoCaptions
                  /\ caption_outcome' = "raised"
                  /\ response' = Redirect("Internal Server Error")
                  /\ trace' = trace \o <<"caption_adapter", "response">>
                  /\ pc' = "responded"
    /\ UNCHANGED <<appFrame, image_outcome, run_dir_exists, run_dir, logo_path, product_path,
                   gemini_images, out_lines, zip_file>>

\* lines 110-117: the caption adapter runs; what it raises is caught and
\* captions_list set back to None. GeminiCaptionAdapter is None when its
\* import failed (line 41), and calling it raises
CaptionAdapterStep ==
    /\ pc = "caption"
    /\ use_llm
    /\ \E imported \in BOOLEAN :
         LET r == generate_captions(api_key, brand, product, AppCaptions, remote)
         IN  IF imported /\ ~r.raised
             THEN /\ captions_list' = [some |-> TRUE, value |-> r.value]
                  /\ caption_outcome' = "ok"
             ELSE /\ captions_list' = NoCaptions
                  /\ caption_outcome' = "raised"
    /\ trace' = Append(trace, "caption_adapter")
    /\ pc' = "compose"
    /\ UNCHANGED <<appFrame, image_outcome, run_dir_exists, run_dir, logo_path, product_path,
                   gemini_images, out_lines, zip_file, response>>

\* lines 120-121: generate_variations runs to its end
CompositorStep ==
    /\ pc = "compose"
    /\ logo_state = "ok" /\ product_state = "ok"
    /\ \E pick \in AppPicks :
         run_dir' = generate_variations(run_dir, AppN, pick, brand, product)
    /\ trace' = Append(trace, "compositor")
    /\ pc' = "merge"
    /\ UNCHANGED <<appFrame, image_outcome, caption_outcome, run_dir_exists, logo_path,
                   product_path, gemini_images, captions_list, out_lines, zip_file, response>>

\* the compositor step with an except block that only prints: the request
\* goes on to the merge and the packaging with what is on disk
CompositorFailsGoesOn ==
    /\ pc = "compose"
    /\ \E done \in 0..(AppN - 1) :
         /\ (logo_state # "ok" \/ product_state # "ok") => done = 0
         /\ run_dir' = save_creatives(run_dir, 0, done)
    /\ trace' = Append(trace, "compositor")
    /\ pc' = "merge"
    /\ UNCHANGED <<appFrame, image_outcome, caption_outcome, run_dir_exists, logo_path,
                   product_path, gemini_images, captions_list, out_lines, zip_file, response>>

\* lines 122-126: generate_variations raises, at Image.open or in the pass
\* after `done` creatives; the request ends with a flash message
CompositorFails ==
    /\ pc = "compose"
    /\ \E done \in 0..(AppN - 1) :
         /\ (logo_state # "ok" \/ product_state # "ok") => done = 0
         /\ run_dir' = save_creatives(run_dir, 0, done)
    /\ response' = Redirect("Generation failed on server. Check server logs.")
    /\ trace' = trace \o <<"compositor", "response">>
    /\ pc' = "responded"
    /\ UNCHANGED <<appFrame, image_outcome, caption_outcome, run_dir_exists, logo_path,
                   product_path, gemini_images, captions_list, out_lines, zip_file>>

\* line 129: captions_list is None or empty
MergeSkipped ==
    /\ pc = "merge"
    /\ ~captions_list.some \/ captions_list.value = <<>>
    /\ pc' = "package"
    /\ UNCHANGED <<appFrame, runVars>>

\* lines 129-137: captions.txt is rewritten from the adapter's captions; a
\* failure of the write is caught and printed
MergeStep ==
    /\ pc = "merge"
    /\ captions_list.some /\ captions_list.value # <<>>
    /\ \E written \in BOOLEAN :
         LET entries == merge_entries(img_files(run_dir, logo_path), captions_list.value)
         IN  IF written
             THEN /\ run_dir' = WriteFile(run_dir, CaptionsTxt, merge_text(entries))
                  /\ out_lines' = entries
             ELSE UNCHANGED <<run_dir, out_lines>>
    /\ trace' = Append(trace, "caption_merge")
    /\ pc' = "package"
    /\ UNCHANGED <<appFrame, image_outcome, caption_outcome, run_dir_exists, logo_path,
                   product_path, gemini_images, captions_list, zip_file, response>>

\* lines 140-142: create_zip(run_dir, zip_path) returns
PackagingStep ==
    /\ pc = "package"
    /\ zip_file' = [exists |-> TRUE, entries |-> create_zip(run_dir)]
    /\ trace' = Append(trace, "packaging")
    /\ pc' = "send"
    /\ UNCHANGED <<appFrame, image_outcome, caption_outcome, run_dir_exists, run_dir,
                   logo_path, product_path, gemini_images, captions_list, out_lines, response>>

\* lines 143-146: create_zip raises; the request ends with a flash message
PackagingFails ==
    /\ pc = "package"
    /\ zip_file' = [exists |-> TRUE, entries |-> <<>>]
    /\ response' = Redirect("Packaging failed on server.")
    /\ trace' = trace \o <<"packaging", "response">>
    /\ pc' = "responded"
    /\ UNCHANGED <<appFrame, image_outcome, caption_outcome, run_dir_exists, run_dir,
                   logo_path, product_path, gemini_images, captions_list, out_lines>>

\* lines 148-150: the archive is sent
SendFile ==
    /\ pc = "send"
    /\ response' = [kind |-> "file", flash |-> "",
                    download_name |-> download_name(brand, product),
                    entries |-> zip_file.entries]
    /\ trace' = Append(trace, "response")
    /\ pc' = "responded"
    /\ UNCHANGED <<appFrame, image_outcome, caption_outcome, run_dir_exists, run_dir,
                   logo_path, product_path, gemini_images, captions_list, out_lines, zip_file>>

Next ==
    \/ RejectMissing \/ RejectExtension \/ SaveUploads
    \/ ImageAdapterDisabled \/ ImageAdapterStep
    \/ CaptionAdapterDisabled \/ CaptionAdapterStep
    \/ CompositorStep \/ CompositorFails
    \/ MergeSkipped \/ MergeStep
    \/ PackagingStep \/ PackagingFails
    \/ SendFile

Spec == Init /\ [][Next]_vars

(***************************************************************************)
(* The image adapter under every input: SpecImages                         *)
(***************************************************************************)
SdkShapes == {"missing", "generate_image", "images.generate", "other"}

ItemKinds == {"b64", "bad", "none"}

RECURSIVE ItemsOfLen(_)
ItemsOfLen(k) ==
    IF k = 0 THEN {<<>>}
    ELSE {Append(t, c) : t \in ItemsOfLen(k - 1), c \in ItemKinds}

\* what the SDK's image call may do: raise, or give back a list of items
ImageRemotes ==
    {NoItems} \cup {[raises |-> FALSE, items |-> t] :
                        t \in UNION {ItemsOfLen(k) : k \in 0..MaxItems}}

\* prompt=f"Product photo of {product} by {brand}" (app.py line 103)
ImagePrompt == <<"Product photo of ">> \o product \o <<" by ">> \o brand

InitImages ==
    /\ pc = "images_ready"
    /\ brand \in Brands
    /\ product \in {<<"P">>}
    /\ n = 0
    /\ genai \in SdkShapes
    /\ image_key \in BOOLEAN
    /\ image_remote \in ImageRemotes
    /\ count \in 0..MaxCount
    /\ image_dir = {}
    /\ image_ret = NoReturn
    /\ CaptionsIdle
    /\ ComposeIdle
    /\ ZipIdle
    /\ AppIdle
    /\ CropIdle
    /\ MultiIdle

\* a call of GeminiImageAdapter.generate_images(prompt, count, size, out_dir)
GenerateImages ==
    /\ pc = "images_ready"
    /\ LET r == generate_images(genai, image_key, image_remote, ImagePrompt, count, image_dir)
       IN  /\ image_dir' = r.dir
           /\ image_ret' = r.ret
    /\ pc' = "images_returned"
    /\ UNCHANGED <<callVars, captionVars, composeVars, zipVars, appVars, cropVars, multiVars,
                   genai, image_key, image_remote, count>>

\* a call of _local_placeholders(prompt, count, size, out_dir)
LocalPlaceholders ==
    /\ pc = "images_ready"
    /\ LET r == _local_placeholders(ImagePrompt, count, image_dir)
       IN  /\ image_dir' = r.dir
           /\ image_ret' = r.ret
    /\ pc' = "placeholders_returned"
    /\ UNCHANGED <<callVars, captionVars, composeVars, zipVars, appVars, cropVars, multiVars,
                   genai, image_key, image_remote, count>>

NextImages == GenerateImages \/ LocalPlaceholders

SpecImages == InitImages /\ [][NextImages]_vars

(***************************************************************************)
(* The subject crop of the compositor under every product image: SpecCrop  *)
(***************************************************************************)
\* the pixels a product file may hold besides its background: in a file with
\* an alpha band the background is transparent, in one without it is white
Background(mode) == IF mode = "RGBA" THEN Pixel(255, 0) ELSE Pixel(255, 255)

MarkKinds(mode) ==
    IF mode = "RGBA" THEN {Pixel(240, 255), Pixel(255, 255), Pixel(240, 0)}
    ELSE {Pixel(240, 255), Pixel(250, 255)}

\* the images of a size and mode with at most MaxMarks pixels off the background
ImagesOf(mode, w, h) ==
    UNION {{MakeImage(mode, w, h,
                      [pos \in Positions(w, h) |->
                          IF pos \in S THEN m[pos] ELSE Background(mode)]) :
                m \in [S -> MarkKinds(mode)]} :
           S \in {T \in SUBSET Positions(w, h) : Cardinality(T) <= MaxMarks}}

ProductImages ==
    UNION {ImagesOf(mode, w, h) : mode \in {"RGBA", "RGB"}, w \in 1..MaxSide, h \in 1..MaxSide}

InitCrop ==
    /\ pc = "crop_ready"
    /\ brand \in {<<"A">>}
    /\ product \in {<<"P">>}
    /\ n = 0
    /\ product_img \in ProductImages
    /\ rgba = NoImage
    /\ prod_cropped = NoBox
    /\ CaptionsIdle
    /\ ComposeIdle
    /\ ZipIdle
    /\ AppIdle
    /\ ImagesIdle
    /\ MultiIdle

\* line 192: product = Image.open(product_path).convert("RGBA")
OpenProduct ==
    /\ pc = "crop_ready"
    /\ rgba' = convert_RGBA(product_img)
    /\ pc' = "crop_opened"
    /\ UNCHANGED <<callVars, captionVars, composeVars, zipVars, appVars, imageVars, multiVars,
                   product_img, prod_cropped>>

\* line 228: prod_cropped = _autocrop_to_subject(product)
AutocropProduct ==
    /\ pc = "crop_opened"
    /\ prod_cropped' = _autocrop_to_subject(rgba, Threshold)
    /\ pc' = "cropped"
    /\ UNCHANGED <<callVars, captionVars, composeVars, zipVars, appVars, imageVars, multiVars,
                   product_img, rgba>>

NextCrop == OpenProduct \/ AutocropProduct

SpecCrop == InitCrop /\ [][NextCrop]_vars

(***************************************************************************)
(* Concurrent requests to /generate: SpecMulti                             *)
(*                                                                         *)
(* Each request runs the steps of generate() on its own; the steps of      *)
(* different requests interleave in any order. All of them share the       *)
(* directory RUNS. uuid4() draws 122 random bits: it is taken to give an   *)
(* id that no other request has been given.                                *)
(***************************************************************************)
\* every client uploads files of the same names; the bytes differ by client
UploadedLogo == <<"logo", "png">>
UploadedProduct == <<"photo", "JPG">>
UploadBytes(what, r) == <<what, "client " \o ToString(r)>>

\* outcomes of random.choice(templates) over the 12 creatives of a request
MultiPicks == {[k \in 1..AppN |-> k % 5]}

\* the brand each client sends
RequestBrand(r) == <<"Brand", ToString(r)>>

\* the requests a file of a run directory came from, by its bytes
UploadOwners(content) == {r \in Requests : content \in {UploadBytes("logo bytes", r),
                                                          UploadBytes("product bytes", r)}}

multiFrame == <<pc, callVars, captionVars, composeVars, zipVars, appVars, imageVars, cropVars>>

InitMulti ==
    /\ pc = "serving"
    /\ brand \in {<<"A">>}
    /\ product \in {<<"P">>}
    /\ n = AppN
    /\ req_pc = [r \in Requests |-> "request"]
    /\ run_id = [r \in Requests |-> NoRunId]
    /\ runs_dir = [id \in RunIds |-> NoRun]
    /\ writers = [id \in RunIds |-> {}]
    /\ sent = [r \in Requests |-> NoResponse]
    /\ logo_file = NoUpload
    /\ product_file = NoUpload
    /\ use_image_api \in BOOLEAN
    /\ use_llm \in BOOLEAN
    /\ RunIdle
    /\ CaptionsIdle
    /\ ComposeIdle
    /\ ZipIdle
    /\ ImagesIdle
    /\ CropIdle

\* a write of request r under RUNS / id or RUNS / f"{id}.zip"
Wrote(r, id) == [writers EXCEPT ![id] = @ \cup {r}]

\* lines 79-90: run_id = uuid4().hex, the run directory is made and the two
\* uploads are saved in it
MSaveUploads(r) ==
    /\ req_pc[r] = "request"
    /\ \E id \in RunIds \ {run_id[q] : q \in Requests} :
         /\ run_id' = [run_id EXCEPT ![r] = id]
         /\ runs_dir' = [runs_dir EXCEPT ![id] =
                [exists |-> TRUE,
                 dir |-> WriteFile(WriteFile(@.dir, SavedName("logo_", UploadedLogo),
                                             UploadBytes("logo bytes", r)),
                                   SavedName("product_", UploadedProduct),
                                   UploadBytes("product bytes", r)),
                 zip |-> @.zip]]
         /\ writers' = Wrote(r, id)
    /\ req_pc' = [req_pc EXCEPT ![r] = "image"]
    /\ UNCHANGED <<multiFrame, sent>>

\* lines 99-106: with USE_IMAGE_API the image adapter leaves
\* run_dir / "gemini_images"
MImageAdapter(r) ==
    /\ req_pc[r] = "image"
    /\ IF use_image_api
       THEN /\ runs_dir' = [runs_dir EXCEPT ![run_id[r]].dir = @ \cup {DirEntry(GeminiImagesDir)}]
            /\ writers' = Wrote(r, run_id[r])
       ELSE UNCHANGED <<runs_dir, writers>>
    /\ req_pc' = [req_pc EXCEPT ![r] = "compose"]
    /\ UNCHANGED <<multiFrame, run_id, sent>>

\* lines 120-126: the compositor writes into the run directory of the
\* request, or raises at once and the request ends with a redirect
MCompositor(r) ==
    /\ req_pc[r] = "compose"
    /\ \E ok \in BOOLEAN :
         IF ok
         THEN /\ \E pick \in MultiPicks :
                   runs_dir' = [runs_dir EXCEPT ![run_id[r]].dir =
                       generate_variations(@, AppN, pick, RequestBrand(r), product)]
              /\ writers' = Wrote(r, run_id[r])
              /\ req_pc' = [req_pc EXCEPT ![r] = "merge"]
              /\ sent' = sent
         ELSE /\ sent' = [sent EXCEPT ![r] =
                            Redirect("Generation failed on server. Check server logs.")]
              /\ req_pc' = [req_pc EXCEPT ![r] = "responded"]
              /\ UNCHANGED <<runs_dir, writers>>
    /\ UNCHANGED <<multiFrame, run_id>>

\* lines 109-117 and 129-137: with USE_LLM the caption adapter gives captions
\* (here: its templates) and captions.txt of the run directory is rewritten
MMerge(r) ==
    /\ req_pc[r] = "merge"
    /\ IF use_llm
       THEN /\ runs_dir' = [runs_dir EXCEPT ![run_id[r]].dir =
                  WriteFile(@, CaptionsTxt,
                      merge_text(merge_entries(
                          img_files(@, SavedName("logo_", UploadedLogo)),
                          _template_captions(RequestBrand(r), product, AppCaptions))))]
            /\ writers' = Wrote(r, run_id[r])
       ELSE UNCHANGED <<runs_dir, writers>>
    /\ req_pc' = [req_pc EXCEPT ![r] = "package"]
    /\ UNCHANGED <<multiFrame, run_id, sent>>

\* the packaging with one zip_path for every request: RUNS / "creatives.zip",
\* kept here under the first run id
MPackagingFixedPath(r) ==
    /\ req_pc[r] = "package"
    /\ LET shared == "run" \o ToString(1)
       IN  /\ runs_dir' = [runs_dir EXCEPT ![shared].zip =
                  [exists |-> TRUE, entries |-> create_zip(runs_dir[run_id[r]].dir)]]
           /\ writers' = Wrote(r, shared)
    /\ req_pc' = [req_pc EXCEPT ![r] = "send"]
    /\ UNCHANGED <<multiFrame, run_id, sent>>

\* lines 140-142: create_zip(run_dir, RUNS / f"{run_id}.zip")
MPackaging(r) ==
    /\ req_pc[r] = "package"
    /\ runs_dir' = [runs_dir EXCEPT ![run_id[r]].zip =
           [exists |-> TRUE, entries |-> create_zip(runs_dir[run_id[r]].dir)]]
    /\ writers' = Wrote(r, run_id[r])
    /\ req_pc' = [req_pc EXCEPT ![r] = "send"]
    /\ UNCHANGED <<multiFrame, run_id, sent>>

\* lines 149-150: send_file(zip_path)
MSendFile(r) ==
    /\ req_pc[r] = "send"
    /\ sent' = [sent EXCEPT ![r] =
                   [kind |-> "file", flash |-> "",
                    download_name |-> download_name(RequestBrand(r), product),
                    entries |-> runs_dir[run_id[r]].zip.entries]]
    /\ req_pc' = [req_pc EXCEPT ![r] = "responded"]
    /\ UNCHANGED <<multiFrame, run_id, runs_dir, writers>>

NextMulti ==
    \E r \in Requests :
        \/ MSaveUploads(r) \/ MImageAdapter(r) \/ MCompositor(r)
        \/ MMerge(r) \/ MPackaging(r) \/ MSendFile(r)

SpecMulti == InitMulti /\ [][NextMulti]_vars

(***************************************************************************)
(* Properties of the caption adapter                                       *)
(***************************************************************************)
\* the text the adapter extracts from the response of this call
ExtractedText == _extract_text_from_response(remote.data)

\* the remote call was made, succeeded and gave a non-empty text
UsableResponse == api_key /\ ~remote.raises /\ ExtractedText.some /\ ExtractedText.text # <<>>

\* the lines of a text that hold something other than whitespace, in order
NonBlankLines(t) ==
    SelectSeq(SplitLines(t), LAMBDA l : \E j \in 1..Len(l) : l[j] \notin Whitespace)

\* C2: generate_captions never raises and returns exactly n captions, whatever
\* the credential and the remote call do.
C2_NeverRaisesExactlyN ==
    pc = "captions_returned" => (~result.raised /\ Len(result.value) = n)

C2_Witness ==
    /\ pc = "captions_returned" /\ api_key /\ remote.raises /\ n = 3
    /\ ~result.raised /\ Len(result.value) = 3

C4_PaddingRestartsCycle ==
    (pc = "captions_returned" /\ UsableResponse
        /\ Len(NonBlankLines(ExtractedText.text)) < n)
    => LET k == Len(NonBlankLines(ExtractedText.text))
       IN  /\ Len(result.value) = n
           /\ \A j \in k..(n - 1) :
                result.value[j + 1] = TemplateCaption((j - k) % 5, brand, product)

\* C4 as claimed: position j holds template number j mod 5.
C4_PaddingContinuesCycle ==
    (pc = "captions_returned" /\ UsableResponse
        /\ Len(NonBlankLines(ExtractedText.text)) < n)
    => LET k == Len(NonBlankLines(ExtractedText.text))
       IN  \A j \in k..(n - 1) :
                result.value[j + 1] = TemplateCaption(j % 5, brand, product)

C4_Witness ==
    /\ pc = "captions_returned" /\ UsableResponse /\ n = MaxN
    /\ Len(NonBlankLines(ExtractedText.text)) = 1
    /\ result.value[1].src = "line"
    /\ result.value[2] = TemplateCaption(0, brand, product)
    /\ result.value[MaxN] = TemplateCaption((MaxN - 2) % 5, brand, product)

\* C5: with no credential the adapter returns exactly the output of
\* _template_captions(brand, product, n), sends no request and does not raise.
C5_NoKeyIsFallback ==
    (pc = "captions_returned" /\ ~api_key)
    => /\ ~result.raised
       /\ result.value = _template_captions(brand, product, n)
       /\ rest_calls = 0

C5_Witness ==
    /\ pc = "captions_returned" /\ ~api_key /\ n = 2 /\ ~remote.raises
    /\ remote.data.shape = "direct" /\ remote.data.text = <<"a">>
    /\ result.value = <<TemplateCaption(0, brand, product), TemplateCaption(1, brand, product)>>

\* C6: _template_captions returns n entries, entry i (from 0) being template
\* number i mod 5 over brand and product, and a second call with the same
\* arguments returns the same sequence.
C6_TemplatesDeterministic ==
    /\ pc \in {"template_returned", "template_twice"}
        => /\ Len(result.value) = n
           /\ \A i \in 0..(n - 1) :
                result.value[i + 1] = TemplateCaption(i % 5, brand, product)
    /\ pc = "template_twice" => result2 = result

C6_Witness ==
    /\ pc = "template_twice" /\ n = MaxN /\ MaxN > 5
    /\ result.value[6] = TemplateCaption(0, brand, product)
    /\ result2.value[6] = TemplateCaption(0, brand, product)

\* C17: every caption generate_captions returns is a non-empty string: a
\* response line made only of bullet, dash or whitespace characters never
\* shows up as an empty caption.
C17_NoEmptyCaption ==
    pc = "captions_returned"
    => \A i \in 1..Len(result.value) :
          result.value[i].src = "line" => result.value[i].text # <<>>

(***************************************************************************)
(* Properties of the image adapter                                         *)
(***************************************************************************)
\* no credential or no SDK, a failing remote call, or no item with a payload
ImagesFallBack ==
    \/ genai \in {"missing", "other"}
    \/ ~image_key
    \/ image_remote.raises
    \/ \A k \in 1..Len(image_remote.items) : image_remote.items[k] = "none"

PlaceholdersIn(dir) == {e \in dir : e.name.stem = "gemini_placeholder"}

\* C11: generate_images never raises, whatever the SDK does; with no
\* credential, a failing remote call or no image payload it leaves exactly
\* count placeholder images in out_dir and returns exactly their count paths,
\* all distinct.
C11_NeverRaisesPlaceholders ==
    pc = "images_returned"
    => /\ image_ret.kind = "list"
       /\ ImagesFallBack
            => /\ {e.name : e \in PlaceholdersIn(image_dir)}
                    = {PlaceholderName(k) : k \in 1..count}
               /\ Cardinality(PlaceholdersIn(image_dir)) = count
               /\ \A e \in PlaceholdersIn(image_dir) : e.type = "file"
               /\ Len(image_ret.value) = count
               /\ \A k \in 1..count : image_ret.value[k] = ImagePath(PlaceholderName(k))
               /\ Cardinality({image_ret.value[k] : k \in 1..count}) = count

C11_Witness ==
    /\ pc = "images_returned"
    /\ genai = "generate_image" /\ image_key /\ image_remote.raises
    /\ count = MaxCount
    /\ Len(image_ret.value) = MaxCount
    /\ Cardinality(PlaceholdersIn(image_dir)) = MaxCount

(***************************************************************************)
(* Properties of the compositor                                            *)
(***************************************************************************)
\* the lines of a text file written without a final line break
FileLines(content) == ReSplit(content, {"\n"})

\* C1: a completed call with n >= 1 leaves exactly n creatives in out_dir,
\* each as creative_XX.png and creative_XX.jpg, and a captions.txt of exactly
\* n lines, line i being "<creative_i>.jpg<TAB><caption>" in index order.
C1_ExactlyNCreativesAndLines ==
    (pc = "compose_returned" /\ n >= 1)
    => /\ {e.name : e \in {f \in out_dir : f.name.stem = "creative"}}
            = {CreativePng(k) : k \in 0..(n - 1)} \cup {CreativeJpg(k) : k \in 0..(n - 1)}
       /\ HasFile(out_dir, CaptionsTxt)
       /\ Len(FileLines(ContentOf(out_dir, CaptionsTxt))) = n
       /\ \A k \in 0..(n - 1) :
            \E choice \in CaptionChoices :
                FileLines(ContentOf(out_dir, CaptionsTxt))[k + 1]
                    = caption_entry(k, generate_caption(choice, brand, product))

\* the creative files of a directory
CreativeFiles(dir) == {e.name : e \in {f \in dir : f.name.stem = "creative"}}

\* both encodings of the creatives numbered 1..k
CreativeNames(k) ==
    {CreativePng(j) : j \in 0..(k - 1)} \cup {CreativeJpg(j) : j \in 0..(k - 1)}

\* the call has gone past its first line
ComposeStarted == pc \in {"compose_loop", "compose_raised", "compose_returned"}

\* captions.txt is as it was before the call: absent, or the old file
CaptionsTxtUntouched ==
    HasFile(out_dir, CaptionsTxt) => ContentOf(out_dir, CaptionsTxt) = OldCaptions

\* C13: when the logo or the product file is missing or cannot be decoded,
\* generate_variations raises (FileNotFoundError for a missing file, PIL's
\* UnidentifiedImageError for one that does not decode) before any output:
\* no pass of the loop runs, no creative is written and captions.txt is
\* neither written nor changed.
C13_MissingInputHalts ==
    (ComposeStarted /\ (logo_state # "ok" \/ product_state # "ok"))
    => /\ pc = "compose_raised"
       /\ ret = RaiseExc(IF logo_state = "missing" \/ product_state = "missing"
                         THEN "FileNotFoundError" ELSE "UnidentifiedImageError")
       /\ loop_i = 0 /\ captions = <<>> /\ captions_writes = 0
       /\ CreativeFiles(out_dir) = {}
       /\ out_dir \in InitialDirs

C13_Witness ==
    /\ pc = "compose_raised" /\ n = MaxCreatives
    /\ logo_state = "ok" /\ product_state = "undecodable"
    /\ ret.exc = "UnidentifiedImageError"
    /\ out_dir = {FileEntry(CaptionsTxt, OldCaptions)}

C15_CaptionsOnceAfterAll ==
    /\ captions_writes <= 1
    /\ ComposeStarted => ((captions_writes = 1) <=> (pc = "compose_returned"))
    /\ pc = "compose_returned"
        => /\ loop_i = n
           /\ CreativeFiles(out_dir) = CreativeNames(n)
           /\ HasFile(out_dir, CaptionsTxt)
           /\ ContentOf(out_dir, CaptionsTxt) = JoinLines(captions)
           /\ ContentOf(out_dir, CaptionsTxt) # OldCaptions
    /\ pc \in {"compose_loop", "compose_raised"} => CaptionsTxtUntouched
    /\ (pc = "compose_raised" /\ ret.exc = "Exception")
        => /\ loop_i < n
           /\ Len(captions) = loop_i
           /\ CreativeFiles(out_dir) \subseteq CreativeNames(loop_i) \cup {CreativePng(loop_i)}
           /\ ~ENABLED (ComposeCreative \/ ComposeWriteCaptions)

C15_Witness ==
    /\ pc = "compose_raised" /\ ret.exc = "Exception"
    /\ n = MaxCreatives /\ loop_i = 1
    /\ HasFile(out_dir, CreativeJpg(0)) /\ HasFile(out_dir, CreativePng(1))
    /\ HasFile(out_dir, CaptionsTxt) /\ ContentOf(out_dir, CaptionsTxt) = OldCaptions

(***************************************************************************)
(* Properties of the packaging layer                                       *)
(***************************************************************************)
FilesOf(dir) == {e \in dir : e.type = "file"}
SubdirsOf(dir) == {e \in dir : e.type = "dir"}

\* C10 as amended: the archive holds exactly one entry per immediate entry of
\* the folder: each of the k files under its bare filename with the same
\* content, and one empty entry "<name>/" per subdirectory; nothing located
\* inside a subdirectory is added.
C10_OneEntryPerImmediateEntry ==
    pc = "zip_returned"
    => /\ Len(archive) = Cardinality(FilesOf(folder)) + Cardinality(SubdirsOf(folder))
       /\ \A e \in FilesOf(folder) :
            \E j \in 1..Len(archive) :
                archive[j] = [arcname |-> NameStr(e.name), is_dir |-> FALSE, content |-> e.content]
       /\ \A e \in SubdirsOf(folder) :
            \E j \in 1..Len(archive) :
                archive[j] = [arcname |-> NameStr(e.name) \o "/", is_dir |-> TRUE, content |-> <<>>]
       /\ \A j \in 1..Len(archive) : archive[j].arcname # NameStr(InnerName)

\* C10 as claimed: for a folder containing k files the archive has exactly k
\* entries, one per file, under the bare filename and with the same content.
C10_ExactlyKEntries ==
    pc = "zip_returned"
    => /\ Len(archive) = Cardinality(FilesOf(folder))
       /\ \A e \in FilesOf(folder) :
            \E j \in 1..Len(archive) :
                archive[j] = [arcname |-> NameStr(e.name), is_dir |-> FALSE, content |-> e.content]
       /\ \A j \in 1..Len(archive) : archive[j].arcname # NameStr(InnerName)

C10_Witness ==
    /\ pc = "zip_returned"
    /\ Cardinality(FilesOf(folder)) = MaxFiles
    /\ Cardinality(SubdirsOf(folder)) = 1
    /\ nested # {}
    /\ Len(archive) = MaxFiles + 1

(***************************************************************************)
(* Properties of a request                                                 *)
(***************************************************************************)
Steps(t) == {t[k] : k \in 1..Len(t)}

\* the creatives of the run directory, by number
CreativesIn(dir) == {e.name.idx : e \in {x \in dir : x.name.stem = "creative"}}

\* C7: after the merge the caption entries are no more than the creatives and
\* are aligned by position: entry i names the i-th creative and carries the
\* i-th supplied caption, so no creative has two entries and every entry
\* names a creative.
C7_EntriesAlignedWithCreatives ==
    (pc = "responded" /\ out_lines # <<>>)
    => /\ Len(out_lines) <= Cardinality(CreativesIn(run_dir))
       /\ \A k \in 1..Len(out_lines) :
            /\ out_lines[k].file.stem = "creative"
            /\ out_lines[k].file.idx = k
            /\ out_lines[k].caption = captions_list.value[k]
       /\ \A j, k \in 1..Len(out_lines) :
            (j # k) => out_lines[j].file.idx # out_lines[k].file.idx

\* the order the steps of a request are to happen in
StepOrder ==
    <<"save_uploads", "image_adapter", "caption_adapter", "compositor",
      "caption_merge", "packaging", "response">>

StepIndex(step) == CHOOSE k \in 1..Len(StepOrder) : StepOrder[k] = step

\* C8: the steps of an accepted request happen in the order save uploads,
\* image adapter, caption adapter, compositor, caption merge, packaging,
\* response, whatever the two adapters do; the compositor always runs, and a
\* failure response comes only right after the compositor or the packaging.
C8_StepsInOrder ==
    /\ \A j, k \in 1..Len(trace) : (j < k) => StepIndex(trace[j]) < StepIndex(trace[k])
    /\ (pc = "responded" /\ run_dir_exists)
        => /\ trace[1] = "save_uploads"
           /\ "compositor" \in Steps(trace)
           /\ trace[Len(trace)] = "response"
           /\ ("image_adapter" \in Steps(trace)) = use_image_api
           /\ ("caption_adapter" \in Steps(trace)) = use_llm
           /\ response.kind = "file" => {"compositor", "packaging"} \subseteq Steps(trace)
           /\ response.kind # "file"
                => /\ response.kind = "redirect"
                   /\ trace[Len(trace) - 1] \in {"compositor", "packaging"}

C8_Witness ==
    /\ pc = "responded"
    /\ image_outcome = "raised" /\ caption_outcome = "raised"
    /\ response.kind = "file"
    /\ trace = <<"save_uploads", "image_adapter", "caption_adapter", "compositor",
                 "packaging", "response">>

\* a request the upload rules accept: both files sent with a filename, and
\* both filenames ending in a dot and png, jpg or jpeg in any letter case
AllowedSpellings == {"png", "PNG", "jpg", "JPG", "jpeg", "Jpeg"}
Acceptable(upload) ==
    /\ upload.sent
    /\ upload.filename # <<"">>
    /\ Len(upload.filename) >= 2
    /\ upload.filename[Len(upload.filename)] \in AllowedSpellings

\* C9: a request is rejected unless both uploads are acceptable; a rejected
\* request makes no run directory, saves nothing and runs neither the
\* adapters, the compositor nor the packager, and an acceptable one is not
\* rejected.
C9_RejectedUnlessBothAllowed ==
    /\ ~(Acceptable(logo_file) /\ Acceptable(product_file))
        => /\ ~run_dir_exists /\ run_dir = {} /\ gemini_images = {}
           /\ zip_file = NoZip /\ captions_list = NoCaptions
           /\ Steps(trace) \subseteq {"response"}
           /\ pc \in {"request", "responded"}
           /\ pc = "responded" => response.kind = "redirect"
    /\ (Acceptable(logo_file) /\ Acceptable(product_file) /\ pc # "request")
        => /\ run_dir_exists
           /\ HasFile(run_dir, logo_path) /\ HasFile(run_dir, product_path)

C9_Witness ==
    /\ pc = "responded"
    /\ logo_file = [sent |-> TRUE, filename |-> <<"notes", "txt">>]
    /\ product_file = [sent |-> TRUE, filename |-> <<"photo", "JPG">>]
    /\ response = Redirect("Allowed file types: png, jpg, jpeg")
    /\ ~run_dir_exists
    /\ trace = <<"response">>

\* the compositor did not complete: it left no captions.txt in the run directory
CompositorFailed == ~HasFile(run_dir, CaptionsTxt)

\* the two failure messages of a request that was accepted
FailureMessages ==
    {"Generation failed on server. Check server logs.", "Packaging failed on server."}

\* C12: when the compositor raises the request ends with the message
\* "Generation failed on server. Check server logs.", neither the merge nor
\* the packaging runs and no archive exists; when the packaging raises it
\* ends with "Packaging failed on server."; in both cases no archive is sent.
\* An archive is sent only after the compositor and the packaging completed.
C12_FailureAbortsRequest ==
    (pc = "responded" /\ run_dir_exists)
    => /\ CompositorFailed
            => /\ response = Redirect("Generation failed on server. Check server logs.")
               /\ zip_file = NoZip
               /\ Steps(trace) \cap {"caption_merge", "packaging"} = {}
       /\ (~CompositorFailed /\ response.kind # "file")
            => response = Redirect("Packaging failed on server.")
       /\ response.kind = "redirect"
            => /\ response.flash \in FailureMessages
               /\ response.entries = <<>>
       /\ response.kind = "file"
            => /\ ~CompositorFailed
               /\ CreativeFiles(run_dir) = CreativeNames(AppN)
               /\ zip_file.exists
               /\ response.entries = zip_file.entries
               /\ Len(zip_file.entries) = Cardinality(run_dir)

C12_Witness ==
    /\ pc = "responded" /\ run_dir_exists
    /\ logo_state = "ok" /\ product_state = "ok"
    /\ CompositorFailed
    /\ HasFile(run_dir, CreativeJpg(0)) /\ ~HasFile(run_dir, CreativeJpg(AppN - 1))
    /\ response = Redirect("Generation failed on server. Check server logs.")
    /\ zip_file = NoZip

(***************************************************************************)
(* Properties of the subject crop                                          *)
(***************************************************************************)
PixelsOf(img) == Positions(img.w, img.h)

\* the box holds every pixel of S and each of its four edges touches one
TightAround(box, S) ==
    /\ box.some /\ S # {}
    /\ \A pos \in S : /\ box.left <= pos[1] /\ pos[1] < box.right
                       /\ box.top <= pos[2] /\ pos[2] < box.bottom
    /\ \E pos \in S : pos[1] = box.left
    /\ \E pos \in S : pos[1] = box.right - 1
    /\ \E pos \in S : pos[2] = box.top
    /\ \E pos \in S : pos[2] = box.bottom - 1

\* the pixels of the product image that are not fully transparent, and those
\* darker than white minus the threshold
OpaquePixels(img) == {pos \in PixelsOf(img) : img.px[pos].alpha # 0}
DarkPixels(img) == {pos \in PixelsOf(img) : img.px[pos].lum < 255 - Threshold}

\* the centred square of side min(width, height)
CenteredSquare(img, box) ==
    LET side == IF img.w < img.h THEN img.w ELSE img.h
    IN  /\ box.some
        /\ box.right - box.left = side /\ box.bottom - box.top = side
        /\ box.left = (img.w - side) \div 2 /\ box.top = (img.h - side) \div 2

\* C18: the crop of the product image follows the three-way rule: for an
\* image with an alpha band and some non-transparent pixel, the tight box of
\* its non-transparent pixels; for an image without transparency, the tight
\* box of its pixels darker than 255 - threshold; the centred square only
\* when no such box is found.
C18_ThreeWayCrop ==
    pc = "cropped"
    => /\ (product_img.mode = "RGBA" /\ OpaquePixels(product_img) # {})
            => TightAround(prod_cropped, OpaquePixels(product_img))
       /\ (product_img.mode = "RGB" /\ DarkPixels(product_img) # {})
            => TightAround(prod_cropped, DarkPixels(product_img))
       /\ (product_img.mode = "RGB" /\ DarkPixels(product_img) = {})
            => CenteredSquare(product_img, prod_cropped)
       /\ (product_img.mode = "RGBA" /\ OpaquePixels(product_img) = {})
            => \/ TightAround(prod_cropped, DarkPixels(product_img))
               \/ DarkPixels(product_img) = {} /\ CenteredSquare(product_img, prod_cropped)

(***************************************************************************)
(* Properties of concurrent requests                                       *)
(***************************************************************************)
\* the requests whose run id is id
OwnersOf(id) == {r \in Requests : run_id[r] = id}

\* C16: under every interleaving, the requests have pairwise different run
\* ids; each run directory and archive is written only by the request it
\* belongs to, a run directory holds only the uploads of that request, and
\* the archive a request sends is the packaging of its own run directory as
\* it stands, with no upload of another request in it.
C16_RequestsIsolated ==
    /\ \A r1, r2 \in Requests :
          (r1 # r2 /\ run_id[r1] # NoRunId) => run_id[r1] # run_id[r2]
    /\ \A id \in RunIds :
          /\ writers[id] \subseteq OwnersOf(id)
          /\ \A e \in runs_dir[id].dir : UploadOwners(e.content) \subseteq OwnersOf(id)
          /\ runs_dir[id].zip.exists => writers[id] # {}
    /\ \A r \in Requests :
          sent[r].kind = "file"
          => /\ runs_dir[run_id[r]].zip.exists
             /\ sent[r].entries = create_zip(runs_dir[run_id[r]].dir)
             /\ \A j \in 1..Len(sent[r].entries) :
                   UploadOwners(sent[r].entries[j].content) \subseteq {r}
             /\ \E j \in 1..Len(sent[r].entries) :
                   sent[r].entries[j].content = UploadBytes("logo bytes", r)

C16_Witness ==
    /\ \A r \in Requests : req_pc[r] = "responded" /\ sent[r].kind = "file"
    /\ \A r1, r2 \in Requests : r1 # r2 => sent[r1].entries # sent[r2].entries

====
